---- MODULE Spec2Model ----
(***************************************************************************)
(* Model of the noaa_tides Home Assistant integration:                     *)
(*   - the NDBC buoy feed decoder and the buoy sensor's attributes         *)
(*     (custom_components/noaa_tides/sensor.py),                           *)
(*   - the Tides sensor's next/last tide attributes and tide factor        *)
(*     (custom_components/noaa_tides/sensor.py),                           *)
(*   - the process-wide station directory cache and the id lookup          *)
(*     (custom_components/noaa_tides/stations.py),                         *)
(*   - the setup wizard (custom_components/noaa_tides/config_flow.py),     *)
(*   - entry setup and unload (custom_components/noaa_tides/__init__.py),  *)
(*   - the poll of the tides coordinator (sensor.py),                      *)
(*   - the single-step config flow (noaa_tides/config_flow.py).            *)
(* Each part has its own specification (SpecBuoy, SpecTides, SpecStations, *)
(* SpecWizard, SpecSetup, SpecTidesPoll, SpecUserFlow, SpecClock) over the *)
(* shared variables; a part's actions leave the others alone.              *)
(*                                                                         *)
(* Text is modelled as sequences of one-character strings, a line of a     *)
(* feed as the sequence of its whitespace-separated tokens.                *)
(***************************************************************************)
EXTENDS Integers, Sequences, FiniteSets, TLC

VARIABLES
    \* ---- buoy coordinator and buoy sensor
    buoyResp,      \* the HTTP response the poll receives
    buoyRet,       \* outcome of the last _async_update_data: [exc, data]
    buoyData,      \* coordinator.data of the buoy coordinator
    buoyUnits,     \* NOAABuoySensor._unit_system
    buoyAttrs,     \* outcome of the last extra_state_attributes: [exc, attr]
    \* ---- tides coordinator and Tides sensor
    tidesData,     \* coordinator.data of the tides coordinator
    now,           \* datetime.now(), in minutes
    attr,          \* NOAATidesAndCurrentsSensor.attr
    tidesEval,     \* the property the host read last and its outcome
    \* ---- station directory
    stationCache,  \* stations._station_cache
    procs,         \* each caller's position in fetch_noaa_stations / verify_station_id
    calls,         \* calls started so far
    successes,     \* per query type, the directory requests answered with 200
    lastGood,      \* per query type, the list of the latest 200 answer
    fetchLog,      \* the fetch_noaa_stations calls that returned in the last step
    lastVerify,    \* the verify_station_id call that returned last
    \* ---- setup wizard
    flows,         \* each NOAATidesConfigFlow: config_data, stations_cache, the form shown
    entries,       \* the config entries created so far
    \* ---- entry setup and unload
    hassData,      \* hass.data
    setups,        \* each config entry: its station type and where its setup stands
    \* ---- one poll of the tides coordinator
    tidesResp,     \* how the requests of the poll end
    tidesRet       \* outcome of the last _async_update_data: [exc, data]

buoyVars == <<buoyResp, buoyRet, buoyData, buoyUnits, buoyAttrs>>
tidesVars == <<tidesData, now, attr, tidesEval>>
stationVars == <<stationCache, procs, calls, successes, lastGood, fetchLog, lastVerify>>

wizardVars == <<flows, entries>>
setupVars == <<hassData, setups>>
pollVars == <<tidesResp, tidesRet>>
\* the parts only their own specification moves
restVars == <<setupVars, pollVars>>

vars == <<buoyVars, tidesVars, stationVars, wizardVars, restVars>>

(***************************************************************************)
(* Python values                                                           *)
(***************************************************************************)
None == [kind |-> "None"]
PyStr(tok) == [kind |-> "str", tok |-> tok]
PyInt(n) == [kind |-> "int", mant |-> n, scale |-> 0]
\* a float with the decimal value mant / 10^scale
PyFloat(mant, scale) == [kind |-> "float", mant |-> mant, scale |-> scale]
IsNumber(v) == v.kind \in {"int", "float"}

RECURSIVE Pow10(_)
Pow10(k) == IF k = 0 THEN 1 ELSE 10 * Pow10(k - 1)

Abs(n) == IF n < 0 THEN -n ELSE n

\* n / d rounded to the nearest integer, ties to even (Python's round)
RoundDiv(n, d) ==
    LET q == n \div d
        r == n % d
    IN  IF 2 * r < d THEN q
        ELSE IF 2 * r > d THEN q + 1
        ELSE IF q % 2 = 0 THEN q ELSE q + 1

(***************************************************************************)
(* Tokens                                                                  *)
(***************************************************************************)
Digits == {"0", "1", "2", "3", "4", "5", "6", "7", "8", "9"}

DigitVal(c) ==
    CASE c = "0" -> 0 [] c = "1" -> 1 [] c = "2" -> 2 [] c = "3" -> 3
      [] c = "4" -> 4 [] c = "5" -> 5 [] c = "6" -> 6 [] c = "7" -> 7
      [] c = "8" -> 8 [] c = "9" -> 9

Contains(tok, c) == \E i \in 1..Len(tok) : tok[i] = c

Signed(tok) == Len(tok) > 0 /\ tok[1] \in {"+", "-"}
Unsigned(tok) == IF Signed(tok) THEN Tail(tok) ELSE tok
SignOf(tok) == IF Signed(tok) /\ tok[1] = "-" THEN -1 ELSE 1

RECURSIVE DigitsVal(_)
DigitsVal(u) ==
    IF u = <<>> THEN 0
    ELSE 10 * DigitsVal(SubSeq(u, 1, Len(u) - 1)) + DigitVal(u[Len(u)])

\* int(tok) succeeds: an optional sign and one or more digits
IsIntLiteral(tok) ==
    LET u == Unsigned(tok)
    IN  Len(u) > 0 /\ \A i \in 1..Len(u) : u[i] \in Digits

IntOf(tok) == PyInt(SignOf(tok) * DigitsVal(Unsigned(tok)))

DotPos(u) == CHOOSE i \in 1..Len(u) : u[i] = "."

\* float(tok) succeeds, for a token holding a decimal point: an optional
\* sign, digits around exactly one point, at least one digit
IsFloatLiteral(tok) ==
    LET u == Unsigned(tok)
    IN  /\ Cardinality({i \in 1..Len(u) : u[i] = "."}) = 1
        /\ \A i \in 1..Len(u) : u[i] \in Digits \cup {"."}
        /\ Len(u) > 1

FloatOf(tok) ==
    LET u == Unsigned(tok)
        p == DotPos(u)
        ds == SubSeq(u, 1, p - 1) \o SubSeq(u, p + 1, Len(u))
    IN  PyFloat(SignOf(tok) * DigitsVal(ds), Len(u) - p)

\* str.strip("#") of a line followed by split(): the leading hashes of the
\* first token and the trailing hashes of the last one go, an emptied token
\* is no token
RECURSIVE LStripHash(_)
LStripHash(tok) ==
    IF tok # <<>> /\ tok[1] = "#" THEN LStripHash(Tail(tok)) ELSE tok

RECURSIVE RStripHash(_)
RStripHash(tok) ==
    IF tok # <<>> /\ tok[Len(tok)] = "#"
    THEN RStripHash(SubSeq(tok, 1, Len(tok) - 1)) ELSE tok

StripHashSplit(line) ==
    IF line = <<>> THEN <<>>
    ELSE LET n == Len(line)
             l == [i \in 1..n |->
                     LET a == IF i = 1 THEN LStripHash(line[i]) ELSE line[i]
                     IN  IF i = n THEN RStripHash(a) ELSE a]
         IN  SelectSeq(l, LAMBDA t : t # <<>>)

(***************************************************************************)
(* The buoy feed decoder                                                   *)
(***************************************************************************)
SENTINEL == <<"M", "M">>

\* the exception raised while decoding column i, "none" if it decodes
ColumnExc(units, values, i) ==
    IF i > Len(values) THEN "IndexError"
    ELSE IF i > Len(units) THEN "IndexError"
    ELSE IF values[i] = SENTINEL THEN "none"
    ELSE IF Contains(values[i], ".")
         THEN IF IsFloatLiteral(values[i]) THEN "none" ELSE "ValueError"
         ELSE IF IsIntLiteral(values[i]) THEN "none" ELSE "ValueError"

\* a decoder that stores the value token where the unit belongs
ColumnReadingNoUnit(units, values, i) ==
    IF values[i] = SENTINEL THEN <<values[i], PyStr(values[i])>>
    ELSE IF Contains(values[i], ".") THEN <<units[i], FloatOf(values[i])>>
    ELSE <<units[i], IntOf(values[i])>>

\* a decoder that parses every token as a float
ColumnReadingAllFloat(units, values, i) ==
    IF values[i] = SENTINEL THEN <<units[i], PyStr(values[i])>>
    ELSE IF Contains(values[i], ".") THEN <<units[i], FloatOf(values[i])>>
    ELSE <<units[i], PyFloat(IntOf(values[i]).mant, 0)>>

\* the reading stored for column i: (unit, value)
ColumnReading(units, values, i) ==
    IF values[i] = SENTINEL THEN <<units[i], PyStr(values[i])>>
    ELSE IF Contains(values[i], ".") THEN <<units[i], FloatOf(values[i])>>
    ELSE <<units[i], IntOf(values[i])>>

\* lines[0:3] decoded column by column; the first failing column raises
DecodeLines(lines) ==
    LET fields == StripHashSplit(lines[1])
        units == StripHashSplit(lines[2])
        values == lines[3]
        bad == {i \in 1..Len(fields) : ColumnExc(units, values, i) # "none"}
    IN  IF bad # {}
        THEN LET first == CHOOSE i \in bad : \A j \in bad : i <= j
             IN  [exc |-> ColumnExc(units, values, first), data |-> None]
        ELSE LET keys == {fields[i] : i \in 1..Len(fields)}
                 last(k) == CHOOSE i \in 1..Len(fields) :
                               /\ fields[i] = k
                               /\ \A j \in 1..Len(fields) : fields[j] = k => j <= i
             IN  [exc |-> "none",
                  data |-> [k \in keys |-> ColumnReading(units, values, last(k))]]

\* _fetch_data without its length check: indexing a missing line raises
FetchBuoyDataUnchecked(resp) ==
    IF resp.status \in {"conn_error", "http_error"}
    THEN [exc |-> "RequestException", data |-> None]
    ELSE IF Len(resp.lines) < 3 THEN [exc |-> "IndexError", data |-> None]
    ELSE DecodeLines(resp.lines)

\* NOAABuoyDataUpdateCoordinator._fetch_data on a response: requests.get and
\* raise_for_status raise a RequestException, a short text UpdateFailed
FetchBuoyData(resp) ==
    IF resp.status \in {"conn_error", "http_error"}
    THEN [exc |-> "RequestException", data |-> None]
    ELSE IF Len(resp.lines) < 3 THEN [exc |-> "UpdateFailed", data |-> None]
    ELSE DecodeLines(resp.lines)

\* NOAABuoyDataUpdateCoordinator._async_update_data: what it raises or
\* returns, and what _fetch_data raised
BuoyUpdateData(resp) ==
    LET r == FetchBuoyData(resp)
    IN  [exc |-> IF r.exc = "RequestException" THEN "UpdateFailed" ELSE r.exc,
         data |-> r.data,
         fetch_exc |-> r.exc]

(***************************************************************************)
(* The buoy sensor's attributes                                            *)
(***************************************************************************)
kYY == <<"Y", "Y">>
kMM == <<"M", "M">>
kDD == <<"D", "D">>
khh == <<"h", "h">>
kmm == <<"m", "m">>
TimeKeys == {kYY, kMM, kDD, khh, kmm}

degC == <<"d", "e", "g", "C">>
degF == <<"d", "e", "g", "F">>
SufUnit == <<"_", "u", "n", "i", "t">>
SufTime == <<"_", "t", "i", "m", "e">>

IsLeap(y) == (y % 4 = 0 /\ y % 100 # 0) \/ y % 400 = 0
DaysInMonth(y, m) ==
    IF m = 2 THEN (IF IsLeap(y) THEN 29 ELSE 28)
    ELSE IF m \in {4, 6, 9, 11} THEN 30 ELSE 31

\* the exception datetime(YY, MM, DD, hour=hh, minute=mm) raises on the
\* readings of the feed's time columns, "none" if it builds a datetime
DataTimeExc(data) ==
    IF ~(TimeKeys \subseteq DOMAIN data) THEN "KeyError"
    ELSE IF \E k \in TimeKeys : data[k][2].kind # "int" THEN "TypeError"
    ELSE LET y == data[kYY][2].mant
             m == data[kMM][2].mant
             d == data[kDD][2].mant
             h == data[khh][2].mant
             mi == data[kmm][2].mant
         IN  IF /\ y \in 1..9999 /\ m \in 1..12
                /\ d >= 1 /\ d <= DaysInMonth(y, m)
                /\ h \in 0..23 /\ mi \in 0..59
             THEN "none" ELSE "ValueError"

DataTime(data) ==
    [kind |-> "datetime",
     ymdhm |-> <<data[kYY][2].mant, data[kMM][2].mant, data[kDD][2].mant,
                 data[khh][2].mant, data[kmm][2].mant>>]

\* a conversion that forgets the offset of the Fahrenheit scale
FahrenheitNoOffset(v) ==
    PyFloat(RoundDiv(v.mant * 18, Pow10(v.scale)), 1)

\* round((c * 9 / 5) + 32, 1) of a number c = mant / 10^scale, in tenths
Fahrenheit(v) ==
    PyFloat(RoundDiv(v.mant * 18 + 320 * Pow10(v.scale), Pow10(v.scale)), 1)

\* the fields the attributes report: not a time column, not the sentinel
Reported(data) ==
    {k \in DOMAIN data : k \notin TimeKeys /\ data[k][2] # PyStr(SENTINEL)}

Converts(data, unit_system, k) == unit_system = "english" /\ data[k][1] = degC

ReportedUnit(data, unit_system, k) ==
    IF Converts(data, unit_system, k) THEN PyStr(degF) ELSE PyStr(data[k][1])

ReportedValue(data, unit_system, k) ==
    IF Converts(data, unit_system, k) THEN Fahrenheit(data[k][2]) ELSE data[k][2]

\* NOAABuoySensor.extra_state_attributes
BuoyExtraStateAttributes(data, unit_system) ==
    IF data = None THEN [exc |-> "none", attr |-> <<>>]
    ELSE IF DataTimeExc(data) # "none" THEN [exc |-> DataTimeExc(data), attr |-> None]
    ELSE LET rep == Reported(data)
             keys == rep \cup {k \o SufUnit : k \in rep} \cup {k \o SufTime : k \in rep}
             val(key) ==
                 IF key \in rep THEN ReportedValue(data, unit_system, key)
                 ELSE IF \E k \in rep : key = k \o SufUnit
                 THEN ReportedUnit(data, unit_system,
                                   CHOOSE k \in rep : key = k \o SufUnit)
                 ELSE DataTime(data)
         IN  [exc |-> "none", attr |-> [key \in keys |-> val(key)]]

(***************************************************************************)
(* Buoy feeds the model draws from                                         *)
(***************************************************************************)
\* the most measurement columns of a feed row
MaxCols == 2

WTMP == <<"W", "T", "M", "P">>
ATMP == <<"A", "T", "M", "P">>
PRES == <<"P", "R", "E", "S">>
MeasNames == {WTMP, ATMP, PRES}
hPa == <<"h", "P", "a">>
MeasUnits == {degC, hPa}

t0 == <<"0">>
t100 == <<"1", "0", "0">>
t21p4 == <<"2", "1", ".", "4">>
tm1p5 == <<"-", "1", ".", "5">>
tx == <<"x">>
ValueTokens == {SENTINEL, t0, t100, t21p4, tm1p5, tx}

SeqsUpTo(S, n) == UNION {[1..k -> S] : k \in 0..n}
IsInjective(s) == \A i, j \in 1..Len(s) : s[i] = s[j] => i = j

\* "#YY  MM DD hh mm" and the column names of the measurements, all distinct
TimeHeader == <<<<"#">> \o kYY, kMM, kDD, khh, kmm>>
TimeUnits == <<<<"#", "y", "r">>, <<"m", "o">>, <<"d", "y">>, <<"h", "r">>, <<"m", "n">>>>
TimeValues == <<<<"2", "0", "2", "6">>, <<"1", "1">>, <<"0", "1">>, <<"0", "4">>, <<"3", "0">>>>

HeaderRows == {TimeHeader \o m : m \in {s \in SeqsUpTo(MeasNames, MaxCols) : IsInjective(s)}}
UnitRows == {TimeUnits \o u : u \in SeqsUpTo(MeasUnits, MaxCols)}
DataRows == {TimeValues \o v : v \in SeqsUpTo(ValueTokens, MaxCols)}

Feeds ==
    LET full == {<<h, u, v>> : h \in HeaderRows, u \in UnitRows, v \in DataRows}
        more == {<<h, u, v, v>> : h \in HeaderRows, u \in {TimeUnits}, v \in DataRows}
        short == {<<>>} \cup {<<h>> : h \in HeaderRows}
                   \cup {<<h, u>> : h \in HeaderRows, u \in UnitRows}
    IN  full \cup more \cup short

BuoyResponses ==
    {[status |-> "ok", lines |-> f] : f \in Feeds}
      \cup {[status |-> s, lines |-> <<>>] : s \in {"http_error", "conn_error"}}

NotRun == [exc |-> "not_run", data |-> None, attr |-> None]

(***************************************************************************)
(* The Tides sensor: clock strings                                         *)
(***************************************************************************)
MinutesPerDay == 1440

\* a formatter that marks every time AM
FormatClockNoMeridiem(t) ==
    LET h == (t \div 60) % 24
    IN  [hour |-> ((h + 11) % 12) + 1, minute |-> t % 60, ampm |-> "AM"]

\* strftime("%-I:%M %p") of a time given in minutes: the date is dropped
FormatClock(t) ==
    LET h == (t \div 60) % 24
    IN  [hour |-> ((h + 11) % 12) + 1,
         minute |-> t % 60,
         ampm |-> IF h < 12 THEN "AM" ELSE "PM"]

\* a parser that reads the hour and drops the AM/PM mark
ParseClockNoMeridiem(s) == (s.hour % 12) * 60 + s.minute

\* strptime(s, "%I:%M %p"): that clock time on 1900-01-01, in minutes after
\* the midnight of that day
ParseClock(s) ==
    ((s.hour % 12) + (IF s.ampm = "PM" THEN 12 ELSE 0)) * 60 + s.minute

\* timedelta.seconds of a difference of d minutes: the days are dropped
DeltaSeconds(d) == (d % MinutesPerDay) * 60

RECURSIVE GCD(_, _)
GCD(a, b) == IF b = 0 THEN a ELSE GCD(b, a % b)

\* cos(pi * n / d) in thousandths for 0 <= n <= d / 2, by Bhaskara's
\* rational approximation (exact at 0, 1/3 and 1/2)
CosPiLow(n, d) == (1000 * (d * d - 4 * n * n)) \div (d * d + n * n)

\* math.cos(e * math.pi / p) in thousandths, for e >= 0 and p > 0
CosPi(e, p) ==
    LET g == GCD(e, p)
        d == p \div g
        m == (e \div g) % (2 * d)
        n == IF m > d THEN 2 * d - m ELSE m
    IN  IF 2 * n <= d THEN CosPiLow(n, d) ELSE -CosPiLow(d - n, d)

(***************************************************************************)
(* The Tides sensor: attributes and state                                  *)
(***************************************************************************)
EmptyDict == <<>>
Put(d, k, v) == [x \in DOMAIN d \cup {k} |-> IF x = k THEN v ELSE d[x]]

\* the update with the signs of the two directions exchanged
UpdateTideFactorSwapped(a, t) ==
    IF ~({"last_tide_time", "next_tide_time", "next_tide_type"} \subseteq DOMAIN a)
    THEN [exc |-> "none", attr |-> a]
    ELSE LET most_recent == ParseClock(a["last_tide_time"])
             next_tide_time == ParseClock(a["next_tide_time"])
             predicted_period == DeltaSeconds(next_tide_time - most_recent)
             elapsed == DeltaSeconds(t - most_recent)
         IN  IF predicted_period = 0
             THEN [exc |-> "ZeroDivisionError", attr |-> a]
             ELSE [exc |-> "none",
                   attr |-> Put(a, "tide_factor",
                                IF a["next_tide_type"] = "High"
                                THEN 50000 + 50 * CosPi(elapsed, predicted_period)
                                ELSE 50000 - 50 * CosPi(elapsed, predicted_period))]

\* update_tide_factor_from_attr on the dictionary a at the time t; the
\* factor is kept in thousandths
UpdateTideFactor(a, t) ==
    IF ~({"last_tide_time", "next_tide_time", "next_tide_type"} \subseteq DOMAIN a)
    THEN [exc |-> "none", attr |-> a]
    ELSE LET most_recent == ParseClock(a["last_tide_time"])
             next_tide_time == ParseClock(a["next_tide_time"])
             predicted_period == DeltaSeconds(next_tide_time - most_recent)
             elapsed == DeltaSeconds(t - most_recent)
         IN  IF predicted_period = 0
             THEN [exc |-> "ZeroDivisionError", attr |-> a]
             ELSE [exc |-> "none",
                   attr |-> Put(a, "tide_factor",
                                IF a["next_tide_type"] = "High"
                                THEN 50000 - 50 * CosPi(elapsed, predicted_period)
                                ELSE 50000 + 50 * CosPi(elapsed, predicted_period))]

\* the loop over data.iterrows(): most_recent is <<>> for None, <<t>> for a
\* time; stops at the row taken as the next tide
RECURSIVE ScanRows(_, _, _, _)
ScanRows(preds, i, most_recent, t) ==
    IF i > Len(preds)
    THEN [found |-> FALSE, row |-> 0, most_recent |-> most_recent]
    ELSE LET index == preds[i].t
         IN  IF most_recent = <<>> \/ (index <= t /\ index > most_recent[1])
             THEN ScanRows(preds, i + 1, <<index>>, t)
             ELSE IF index > t
             THEN [found |-> TRUE, row |-> i, most_recent |-> most_recent]
             ELSE ScanRows(preds, i + 1, most_recent, t)

\* the current water level part of extra_state_attributes
WithWaterLevel(a, cwl) ==
    IF cwl # None /\ cwl.rows # <<>>
    THEN LET latest == cwl.rows[Len(cwl.rows)]
         IN  Put(Put(a, "current_water_level", latest.water_level),
                 "current_water_level_time", latest.t)
    ELSE a

\* the attributes written for the row taken as the next tide
WithNextTide(a, row, most_recent) ==
    LET a1 == Put(Put(a, "next_tide_time", FormatClock(row.t)),
                  "last_tide_time", FormatClock(most_recent))
    IN  IF row.hi_lo = "H"
        THEN Put(Put(Put(a1, "next_tide_type", "High"), "last_tide_type", "Low"),
                 "high_tide_level", row.predicted_wl)
        ELSE IF row.hi_lo = "L"
        THEN Put(Put(Put(a1, "next_tide_type", "Low"), "last_tide_type", "High"),
                 "low_tide_level", row.predicted_wl)
        ELSE a1

\* NOAATidesAndCurrentsSensor.extra_state_attributes: the dictionary self.attr
\* holds afterwards (the one returned unless exc is raised)
TidesExtraStateAttributes(self_attr, data, t) ==
    LET a0 == IF self_attr = None THEN EmptyDict ELSE self_attr
    IN  IF data = None THEN [exc |-> "none", attr |-> a0]
        ELSE LET a1 == WithWaterLevel(a0, data.current_water_level)
                 scan == ScanRows(data.predictions, 1, <<>>, t)
             IN  IF scan.found
                 THEN UpdateTideFactor(
                          WithNextTide(a1, data.predictions[scan.row],
                                       scan.most_recent[1]), t)
                 ELSE [exc |-> "none", attr |-> a1]

\* NOAATidesAndCurrentsSensor.native_value: the first row after t
TidesNativeValue(data, t) ==
    IF data = None THEN None
    ELSE LET later == {i \in 1..Len(data.predictions) : data.predictions[i].t > t}
         IN  IF later = {} THEN None
             ELSE LET i == CHOOSE i \in later : \A j \in later : i <= j
                      row == data.predictions[i]
                  IN  [kind |-> "str",
                       next_tide |-> IF row.hi_lo = "H" THEN "High" ELSE "Low",
                       tide_time |-> FormatClock(row.t)]

(***************************************************************************)
(* Prediction windows the model draws from                                 *)
(***************************************************************************)
\* the latest time of the model, in grid steps
MaxTick == 3
\* the most rows of a prediction window
MaxPoints == 2

\* times lie on a grid of six hours that starts at noon of the first day
GridStep == 6 * 60
TimeOrigin == 12 * 60
Times == {TimeOrigin + k * GridStep : k \in 0..MaxTick}

HighWater == 5
LowWater == 1

\* a row of a hi/lo prediction table
TideRow(t, hi_lo) ==
    [t |-> t, hi_lo |-> hi_lo,
     predicted_wl |-> IF hi_lo = "H" THEN HighWater ELSE LowWater]

\* the rows that can follow the table w: later than its last row by less
\* than a day, a high after a low and a low after a high
Following(w) ==
    IF w = <<>> THEN {TideRow(t, x) : t \in Times, x \in {"H", "L"}}
    ELSE LET l == w[Len(w)]
         IN  {TideRow(t, IF l.hi_lo = "H" THEN "L" ELSE "H") :
                 t \in {u \in Times : l.t < u /\ u - l.t < MinutesPerDay}}

\* hi/lo prediction tables of n rows: rows in time order, highs and lows
\* alternating, successive extrema less than a day apart
RECURSIVE TideTables(_)
TideTables(n) ==
    IF n = 0 THEN {<<>>}
    ELSE UNION {{Append(w, r) : r \in Following(w)} : w \in TideTables(n - 1)}

Windows == UNION {TideTables(n) : n \in 0..MaxPoints}

WaterLevels == {None, [rows |-> <<[t |-> TimeOrigin, water_level |-> 2]>>]}

TidesIdle ==
    /\ tidesData = None
    /\ now = TimeOrigin
    /\ attr = None
    /\ tidesEval = [op |-> "none", exc |-> "none"]

BuoyIdle ==
    /\ buoyResp = [status |-> "conn_error", lines |-> <<>>]
    /\ buoyUnits = "metric"
    /\ buoyRet = NotRun
    /\ buoyData = None
    /\ buoyAttrs = NotRun

(***************************************************************************)
(* The station directory: cache, fetch and lookup                          *)
(***************************************************************************)
QueryTypes == {"tidepredictions", "waterlevels"}

\* cache_key = f"noaa_{station_type}"
CacheKey(station_type) == <<"noaa_", station_type>>

\* a hit that asks for a non-empty cached list
CacheHitNonEmpty(cache, station_type) ==
    CacheKey(station_type) \in DOMAIN cache /\ cache[CacheKey(station_type)] # <<>>

\* cache_key in _station_cache
CacheHit(cache, station_type) == CacheKey(station_type) \in DOMAIN cache

\* a cache that keeps an empty list for a failed request
CacheAfterKeepsFailure(cache, station_type, o) ==
    Put(cache, CacheKey(station_type), IF o.status = "200" THEN o.stations ELSE <<>>)

\* a cache that drops its entry on a failed request
CacheAfterDropsOnFailure(cache, station_type, o) ==
    IF o.status = "200" THEN Put(cache, CacheKey(station_type), o.stations)
    ELSE [k \in DOMAIN cache \ {CacheKey(station_type)} |-> cache[k]]

\* what fetch_noaa_stations returns for the answer o of the directory, and
\* the cache it leaves
FetchedStations(o) == IF o.status = "200" THEN o.stations ELSE <<>>
CacheAfter(cache, station_type, o) ==
    IF o.status = "200" THEN Put(cache, CacheKey(station_type), o.stations) ELSE cache

\* a comparison that takes any record carrying an id
MatchesAnyId(station, station_id) == "id" \in DOMAIN station

\* station.get("id") == station_id
Matches(station, station_id) == "id" \in DOMAIN station /\ station["id"] = station_id

UnknownStation == <<"Unknown Station">>
\* station.get("name", "Unknown Station")
StationName(station) == IF "name" \in DOMAIN station THEN station["name"] ELSE UnknownStation

\* the loop over a station list: the verdict of the first match, or no verdict
LookUp(stations, station_id) ==
    LET hits == {i \in 1..Len(stations) : Matches(stations[i], station_id)}
    IN  IF hits = {} THEN [found |-> FALSE]
        ELSE [found |-> TRUE,
              verdict |-> [valid |-> TRUE, exc |-> "none",
                           text |-> StationName(stations[CHOOSE i \in hits : \A j \in hits : i <= j])]]

NotFound(station_id) ==
    [valid |-> FALSE, exc |-> "none",
     text |-> <<"Station ID ">> \o station_id \o <<" not found">>]

Alnum == Digits \cup {"A", "B", "a", "b"}
\* the buoy branch of verify_station_id
BuoyVerdict(station_id) ==
    IF Len(station_id) >= 5 /\ \A i \in 1..Len(station_id) : station_id[i] \in Alnum
    THEN [valid |-> TRUE, exc |-> "none", text |-> <<"Buoy ">> \o station_id]
    ELSE [valid |-> FALSE, exc |-> "none", text |-> <<"Invalid buoy ID format">>]

(***************************************************************************)
(* Directories and callers the model draws from                            *)
(***************************************************************************)
\* the most records of a station list
MaxStations == 1
\* the most calls of fetch_noaa_stations and verify_station_id
MaxCalls == 2

Procs == {"wizard1", "wizard2"}
Id9414 == <<"9", "4", "1", "4">>
Id8518 == <<"8", "5", "1", "8">>
Id44017 == <<"4", "4", "0", "1", "7">>
StationIds == {Id9414, Id8518, Id44017}
StationTypes == {"tides", "temp", "buoy"}

StationRecords ==
    {[id |-> Id9414, name |-> <<"San Francisco">>, state |-> "CA"],
     [id |-> Id8518]}
StationLists == SeqsUpTo(StationRecords, MaxStations)

Answers ==
    {[status |-> "200", stations |-> l] : l \in StationLists}
      \cup {[status |-> "500"], [status |-> "exception"]}

IdleProc == [pc |-> "idle"]
NoVerify == [op |-> "none"]

StationsIdle ==
    /\ stationCache = EmptyDict
    /\ procs = [p \in Procs |-> IdleProc]
    /\ calls = 0
    /\ successes = [t \in QueryTypes |-> 0]
    /\ lastGood = [t \in QueryTypes |-> <<>>]
    /\ fetchLog = <<>>
    /\ lastVerify = NoVerify

(***************************************************************************)
(* The setup wizard: a flow before its first step                          *)
(***************************************************************************)
\* NOAATidesConfigFlow.__init__, before the flow manager runs the first step;
\* besides config_data and stations_cache the record keeps the form shown,
\* the await the flow is suspended at, and what the flow went through (the
\* steps entered, the last verdict and validation, whether one failed)
NewFlow ==
    [form |-> "none", errors |-> "none", reason |-> "none", pc |-> "idle",
     config_data |-> EmptyDict, stations_cache |-> <<>>, pending |-> <<>>,
     trail |-> <<>>, verdict |-> [op |-> "none"], validated |-> "none",
     failed |-> FALSE]

WizardIdle ==
    /\ flows = [f \in Procs |-> NewFlow]
    /\ entries = {}

(***************************************************************************)
(* Entry setup and the tides poll before anything ran                      *)
(***************************************************************************)
DOMAIN_NAME == "noaa_tides"
EntryIds == {"entry1", "entry2"}

\* no entry is set up: hass.data has no key of the integration
SetupIdle ==
    /\ hassData = EmptyDict
    /\ setups \in [EntryIds -> {[state |-> "not_loaded", type |-> t, exc |-> "none"] :
                                   t \in {"tides", "temp", "buoy"}}]

\* no poll has run: nothing returned and self.station is None
NoPoll == [exc |-> "not_run", data |-> None, station |-> None]

PollIdle ==
    /\ tidesResp = [op |-> "none"]
    /\ tidesRet = NoPoll

RestIdle ==
    /\ hassData = EmptyDict
    /\ setups = [e \in EntryIds |-> [state |-> "not_loaded", type |-> "tides", exc |-> "none"]]
    /\ PollIdle

(***************************************************************************)
(* Station directory: callers on the event loop                            *)
(***************************************************************************)
InitStations == StationsIdle /\ BuoyIdle /\ TidesIdle /\ WizardIdle /\ RestIdle

\* the record of a fetch_noaa_stations call that returns
FetchReturn(station_type, after_success, expected, requested, stations) ==
    [station_type |-> station_type, after_success |-> after_success,
     expected |-> expected, requested |-> requested, stations |-> stations]

\* the record of a verify_station_id call that returns
VerifyReturn(p, station_id, station_type, verdict, seen) ==
    [op |-> "verify", proc |-> p, station_id |-> station_id,
     station_type |-> station_type, valid |-> verdict.valid, exc |-> verdict.exc,
     text |-> verdict.text, seen |-> seen]

\* a caller (the state step of a wizard) calls fetch_noaa_stations: a cached
\* list is returned at once, otherwise the request goes to the executor and
\* the caller awaits it
FetchCall(p, t) ==
    /\ procs[p].pc = "idle"
    /\ calls < MaxCalls
    /\ calls' = calls + 1
    /\ lastVerify' = NoVerify
    /\ IF CacheHit(stationCache, t)
       THEN /\ fetchLog' = <<FetchReturn(t, successes[t] > 0, lastGood[t], FALSE,
                                         stationCache[CacheKey(t)])>>
            /\ UNCHANGED procs
       ELSE /\ fetchLog' = <<>>
            /\ procs' = [procs EXCEPT ![p] =
                            [pc |-> "awaiting", op |-> "fetch", station_type |-> t,
                             after_success |-> successes[t] > 0, expected |-> lastGood[t]]]
    /\ UNCHANGED <<stationCache, successes, lastGood, buoyVars, tidesVars, restVars>>

\* the second half of verify_station_id, entered with the tidepredictions
\* list s1 that held no match: look in the waterlevels list
VerifyWaterLevels(p, station_id, station_type, s1, log) ==
    IF CacheHit(stationCache', "waterlevels")
    THEN LET s2 == stationCache'[CacheKey("waterlevels")]
             r == LookUp(s2, station_id)
         IN  /\ fetchLog' = Append(log, FetchReturn("waterlevels", successes'["waterlevels"] > 0,
                                                   lastGood'["waterlevels"], FALSE, s2))
             /\ lastVerify' = VerifyReturn(p, station_id, station_type,
                                           IF r.found THEN r.verdict ELSE NotFound(station_id),
                                           s1 \o s2)
             /\ procs' = [procs EXCEPT ![p] = IdleProc]
    ELSE /\ fetchLog' = log
         /\ lastVerify' = NoVerify
         /\ procs' = [procs EXCEPT ![p] =
                         [pc |-> "awaiting", op |-> "verify", station_type |-> "waterlevels",
                          after_success |-> successes'["waterlevels"] > 0,
                          expected |-> lastGood'["waterlevels"],
                          station_id |-> station_id, type |-> station_type, seen |-> s1]]

\* verify_station_id once the tidepredictions list s1 is at hand
VerifyTidePredictions(p, station_id, station_type, s1, log) ==
    LET r == LookUp(s1, station_id)
    IN  IF r.found
        THEN /\ fetchLog' = log
             /\ lastVerify' = VerifyReturn(p, station_id, station_type, r.verdict, s1)
             /\ procs' = [procs EXCEPT ![p] = IdleProc]
        ELSE VerifyWaterLevels(p, station_id, station_type, s1, log)

\* a caller (the manual step of a wizard) calls verify_station_id
VerifyCall(p, station_id, station_type) ==
    /\ procs[p].pc = "idle"
    /\ calls < MaxCalls
    /\ calls' = calls + 1
    /\ UNCHANGED <<stationCache, successes, lastGood, buoyVars, tidesVars, restVars>>
    /\ IF station_type = "buoy"
       THEN /\ lastVerify' = VerifyReturn(p, station_id, station_type,
                                          BuoyVerdict(station_id), <<>>)
            /\ fetchLog' = <<>>
            /\ UNCHANGED procs
       ELSE IF CacheHit(stationCache, "tidepredictions")
       THEN LET s1 == stationCache[CacheKey("tidepredictions")]
            IN  VerifyTidePredictions(p, station_id, station_type, s1,
                    <<FetchReturn("tidepredictions", successes["tidepredictions"] > 0,
                                  lastGood["tidepredictions"], FALSE, s1)>>)
       ELSE /\ fetchLog' = <<>>
            /\ lastVerify' = NoVerify
            /\ procs' = [procs EXCEPT ![p] =
                            [pc |-> "awaiting", op |-> "verify",
                             station_type |-> "tidepredictions",
                             after_success |-> successes["tidepredictions"] > 0,
                             expected |-> lastGood["tidepredictions"],
                             station_id |-> station_id, type |-> station_type, seen |-> <<>>]]

\* the executor job of an awaiting caller ends with the answer o of the
\* directory: fetch_noaa_stations caches a 200 answer and returns, and the
\* caller runs on to its next await or to its end
Answer(p, o) ==
    LET c == procs[p]
        t == c.station_type
        stations == FetchedStations(o)
        log == <<FetchReturn(t, c.after_success, c.expected, TRUE, stations)>>
    IN  /\ c.pc = "awaiting"
        /\ stationCache' = CacheAfter(stationCache, t, o)
        /\ successes' = IF o.status = "200" THEN [successes EXCEPT ![t] = @ + 1] ELSE successes
        /\ lastGood' = IF o.status = "200" THEN [lastGood EXCEPT ![t] = o.stations] ELSE lastGood
        /\ UNCHANGED <<calls, buoyVars, tidesVars, restVars>>
        /\ IF c.op = "fetch"
           THEN /\ fetchLog' = log
                /\ lastVerify' = NoVerify
                /\ procs' = [procs EXCEPT ![p] = IdleProc]
           ELSE IF t = "tidepredictions"
           THEN VerifyTidePredictions(p, c.station_id, c.type, stations, log)
           ELSE LET r == LookUp(stations, c.station_id)
                IN  /\ fetchLog' = log
                    /\ lastVerify' = VerifyReturn(p, c.station_id, c.type,
                                          IF r.found THEN r.verdict ELSE NotFound(c.station_id),
                                          c.seen \o stations)
                    /\ procs' = [procs EXCEPT ![p] = IdleProc]

\* the directory calls of callers that are no wizard of the model
StartFetch(p, t) == FetchCall(p, t) /\ UNCHANGED wizardVars
StartVerify(p, station_id, station_type) ==
    VerifyCall(p, station_id, station_type) /\ UNCHANGED wizardVars
Respond(p, o) == Answer(p, o) /\ UNCHANGED wizardVars

NextStations ==
    \/ \E p \in Procs, t \in QueryTypes : StartFetch(p, t)
    \/ \E p \in Procs, i \in StationIds, t \in StationTypes : StartVerify(p, i, t)
    \/ \E p \in Procs, o \in Answers : Respond(p, o)

SpecStations == InitStations /\ [][NextStations]_vars

(***************************************************************************)
(* The setup wizard: steps of NOAATidesConfigFlow                          *)
(***************************************************************************)
ENTRY_METHODS == {"lookup", "manual"}
DEFAULT_NAME == "NOAA Tides"
\* the states a state form can offer
StateCodes == {"CA"}
\* the name field of the name form: left at its default, or typed
NameInputs == {<<>>, <<"Pier">>}
\* how the executor job nc.Station(station_id) can end
StationOutcomes == {"ok", "ValueError", "ConnectionError", "HTTPError"}

\* get_states_from_stations: the states of the records that carry one (the
\* code sorts them into a list; the form only asks for membership)
GetStates(stations) ==
    {stations[i]["state"] : i \in {j \in 1..Len(stations) : "state" \in DOMAIN stations[j]}}

\* filter_stations_by_state
FilterStationsByState(stations, state) ==
    SelectSeq(stations, LAMBDA st : "state" \in DOMAIN st /\ st["state"] = state)

\* the keys of get_station_options
GetStationOptions(stations) ==
    {stations[i]["id"] : i \in {j \in 1..Len(stations) :
                                   "id" \in DOMAIN stations[j] /\ stations[j]["id"] # <<>>}}

\* f"{station_id}_{type}" with the type left out
UniqueIdNoType(station_id, station_type) == station_id \o <<"_">>

\* f"{station_id}_{type}"
UniqueId(station_id, station_type) == station_id \o <<"_", station_type>>

\* the data of an entry with every collected field kept
FinalDataAll(config_data) == config_data

\* final_data of async_step_name
FinalData(config_data) ==
    [k \in {"station_id", "type", "name"} |-> config_data[k]]

\* a first step that sends only the manual entry method to the manual step
GoesManualByMethod(station_type, entry_method) == entry_method = "manual"

\* the branch of async_step_user
GoesManual(station_type, entry_method) ==
    station_type = "buoy" \/ entry_method = "manual"

\* what validate_input raises for the end of the executor job
ValidateInput(outcome) ==
    IF outcome = "ok" THEN "ok"
    ELSE IF outcome \in {"ValueError", "ConnectionError"} THEN "ValueError"
    ELSE outcome

\* an error code that does not tell the exceptions apart
NameErrorAlwaysCannotConnect(raised) == "cannot_connect"

\* errors["base"] of async_step_name for what validate_input raised
NameError(raised) == IF raised = "ValueError" THEN "cannot_connect" ELSE "unknown"

\* async_show_form
ShowForm(fl, step_id, errors) ==
    [fl EXCEPT !.form = step_id, !.errors = errors, !.pc = "idle"]

\* the step handler step_id is entered
Enter(fl, step_id) ==
    IF fl.trail # <<>> /\ fl.trail[Len(fl.trail)] = step_id THEN fl
    ELSE [fl EXCEPT !.trail = Append(@, step_id)]

\* async_step_manual(None)
ManualStep(fl) == ShowForm(Enter(fl, "manual"), "manual", "none")

\* async_step_name(None)
NameStep(fl) == ShowForm(Enter(fl, "name"), "name", "none")

\* async_step_station(None)
StationStep(fl) ==
    LET e == Enter(fl, "station")
    IN  IF FilterStationsByState(e.stations_cache, e.config_data["state"]) = <<>>
        THEN ManualStep(e)
        ELSE ShowForm(e, "station", "none")

\* a state step that shows its form whatever the list holds
StateStepRestAlways(fl, input) ==
    IF input # <<>>
    THEN StationStep([fl EXCEPT !.config_data = Put(@, "state", input[1])])
    ELSE ShowForm(fl, "state", "none")

\* async_step_state from "if user_input is not None" on; input is <<>> for
\* None and <<state>> for a submitted form
StateStepRest(fl, input) ==
    IF input # <<>>
    THEN StationStep([fl EXCEPT !.config_data = Put(@, "state", input[1])])
    ELSE IF GetStates(fl.stations_cache) = {} THEN ManualStep(fl)
    ELSE ShowForm(fl, "state", "none")

\* async_step_state once fetch_noaa_stations has returned stations
AfterFetch(fl, stations) ==
    LET c == [fl EXCEPT !.stations_cache = stations, !.pc = "idle", !.pending = <<>>]
    IN  IF stations = <<>> THEN ManualStep(c) ELSE StateStepRest(c, fl.pending)

\* a manual step that records the id whatever the verdict
AfterVerifyRecording(fl, v) ==
    LET c == [fl EXCEPT !.verdict = [op |-> "verify", valid |-> v.valid,
                                     station_id |-> v.station_id],
                        !.config_data = Put(@, "station_id", v.station_id),
                        !.pc = "idle"]
    IN  IF ~v.valid THEN ShowForm(c, "manual", "invalid_station_id") ELSE NameStep(c)

\* async_step_manual once verify_station_id has returned v
AfterVerify(fl, v) ==
    LET c == [fl EXCEPT !.verdict = [op |-> "verify", valid |-> v.valid,
                                     station_id |-> v.station_id],
                        !.pc = "idle"]
    IN  IF ~v.valid THEN ShowForm(c, "manual", "invalid_station_id")
        ELSE NameStep([c EXCEPT !.config_data = Put(@, "station_id", v.station_id)])

\* async_step_name once validate_input has returned: the unique id is set,
\* the flow aborts if an entry carries it, otherwise the entry is created
Finish(f, fl) ==
    LET uid == UniqueId(fl.config_data["station_id"], fl.config_data["type"])
        c == [fl EXCEPT !.validated = "ok", !.pc = "idle", !.errors = "none"]
    IN  IF \E e \in entries : e.unique_id = uid
        THEN /\ flows' = [flows EXCEPT ![f] =
                            [c EXCEPT !.form = "abort", !.reason = "already_configured"]]
             /\ UNCHANGED entries
        ELSE /\ flows' = [flows EXCEPT ![f] = [c EXCEPT !.form = "create_entry"]]
             /\ entries' = entries \cup
                               {[unique_id |-> uid, title |-> fl.config_data["name"],
                                 data |-> FinalData(fl.config_data), flow |-> f]}

(***************************************************************************)
(* Setup wizard: the user's submissions and the ends of the awaits         *)
(***************************************************************************)
InitWizard == WizardIdle /\ StationsIdle /\ BuoyIdle /\ TidesIdle /\ RestIdle

\* a step that calls neither fetch_noaa_stations nor verify_station_id:
\* no call returns in it
NoDirectoryCall ==
    /\ fetchLog' = <<>>
    /\ lastVerify' = NoVerify
    /\ UNCHANGED <<stationCache, procs, calls, successes, lastGood>>

\* the flow manager starts the flow: async_step_user(None)
FlowInit(f) ==
    /\ flows[f].form = "none" /\ flows[f].pc = "idle"
    /\ flows' = [flows EXCEPT ![f] = ShowForm(Enter(@, "user"), "user", "none")]
    /\ NoDirectoryCall
    /\ UNCHANGED <<entries, buoyVars, tidesVars, restVars>>

\* async_step_state up to the end of fetch_noaa_stations or its await
StateStep(f, fl, input) ==
    LET e == [Enter(fl, "state") EXCEPT !.pending = input]
        api_type == IF e.config_data["type"] = "tides" THEN "tidepredictions"
                    ELSE "waterlevels"
    IN  IF e.stations_cache = <<>>
        THEN /\ FetchCall(f, api_type)
             /\ flows' = [flows EXCEPT ![f] =
                             IF procs'[f].pc = "idle"
                             THEN AfterFetch(e, fetchLog'[Len(fetchLog')].stations)
                             ELSE [e EXCEPT !.pc = "fetching"]]
        ELSE /\ flows' = [flows EXCEPT ![f] = StateStepRest([e EXCEPT !.pending = <<>>], input)]
             /\ NoDirectoryCall

\* async_step_user(user_input)
SubmitUser(f, station_type, entry_method) ==
    /\ flows[f].form = "user" /\ flows[f].pc = "idle"
    /\ LET c == [flows[f] EXCEPT !.config_data =
                     Put(Put(@, "type", station_type), "entry_method", entry_method)]
       IN  IF GoesManual(station_type, entry_method)
           THEN /\ flows' = [flows EXCEPT ![f] = ManualStep(c)]
                /\ NoDirectoryCall
           ELSE StateStep(f, c, <<>>)
    /\ UNCHANGED <<entries, buoyVars, tidesVars, restVars>>

\* async_step_state(user_input): the state is one the form offered
SubmitState(f, state) ==
    /\ flows[f].form = "state" /\ flows[f].pc = "idle"
    /\ state \in GetStates(flows[f].stations_cache)
    /\ StateStep(f, flows[f], <<state>>)
    /\ UNCHANGED <<entries, buoyVars, tidesVars, restVars>>

\* async_step_station(user_input): the station is one the form offered
SubmitStation(f, station_id) ==
    /\ flows[f].form = "station" /\ flows[f].pc = "idle"
    /\ station_id \in GetStationOptions(
           FilterStationsByState(flows[f].stations_cache, flows[f].config_data["state"]))
    /\ flows' = [flows EXCEPT ![f] =
                    NameStep([@ EXCEPT !.config_data = Put(@, "station_id", station_id)])]
    /\ NoDirectoryCall
    /\ UNCHANGED <<entries, buoyVars, tidesVars, restVars>>

\* async_step_manual(user_input) up to the end of verify_station_id or its
\* first await
SubmitManual(f, station_id) ==
    /\ flows[f].form = "manual" /\ flows[f].pc = "idle"
    /\ VerifyCall(f, station_id, flows[f].config_data["type"])
    /\ flows' = [flows EXCEPT ![f] =
                    IF procs'[f].pc = "idle" THEN AfterVerify(@, lastVerify')
                    ELSE [@ EXCEPT !.pc = "verifying"]]
    /\ UNCHANGED <<entries, buoyVars, tidesVars, restVars>>

\* the directory answers a flow that awaits it in fetch_noaa_stations
DirectoryAnswer(f, o) ==
    /\ flows[f].pc \in {"fetching", "verifying"}
    /\ Answer(f, o)
    /\ flows' = [flows EXCEPT ![f] =
                    IF @.pc = "fetching"
                    THEN AfterFetch(@, fetchLog'[Len(fetchLog')].stations)
                    ELSE IF procs'[f].pc = "idle" THEN AfterVerify(@, lastVerify')
                    ELSE @]
    /\ UNCHANGED <<entries, buoyVars, tidesVars, restVars>>

\* async_step_name(user_input) up to the await in validate_input; for a
\* buoy validate_input returns at once
SubmitName(f, input) ==
    /\ flows[f].form = "name" /\ flows[f].pc = "idle"
    /\ LET c == [flows[f] EXCEPT !.config_data =
                     Put(@, "name", IF input = <<>> THEN DEFAULT_NAME ELSE input[1])]
       IN  IF c.config_data["type"] \in {"tides", "temp"}
           THEN /\ flows' = [flows EXCEPT ![f] = [c EXCEPT !.pc = "validating"]]
                /\ UNCHANGED entries
           ELSE Finish(f, c)
    /\ NoDirectoryCall
    /\ UNCHANGED <<buoyVars, tidesVars, restVars>>

\* the executor job nc.Station ends and async_step_name runs to its end
ValidateAnswer(f, outcome) ==
    /\ flows[f].pc = "validating"
    /\ IF ValidateInput(outcome) = "ok"
       THEN Finish(f, flows[f])
       ELSE /\ flows' = [flows EXCEPT ![f] =
                            ShowForm([@ EXCEPT !.validated = ValidateInput(outcome),
                                               !.failed = TRUE],
                                     "name", NameError(ValidateInput(outcome)))]
            /\ UNCHANGED entries
    /\ NoDirectoryCall
    /\ UNCHANGED <<buoyVars, tidesVars, restVars>>

NextWizard ==
    \/ \E f \in Procs : FlowInit(f)
    \/ \E f \in Procs, t \in StationTypes, m \in ENTRY_METHODS : SubmitUser(f, t, m)
    \/ \E f \in Procs, s \in StateCodes : SubmitState(f, s)
    \/ \E f \in Procs, i \in StationIds : SubmitStation(f, i)
    \/ \E f \in Procs, i \in StationIds : SubmitManual(f, i)
    \/ \E f \in Procs, o \in Answers : DirectoryAnswer(f, o)
    \/ \E f \in Procs, n \in NameInputs : SubmitName(f, n)
    \/ \E f \in Procs, o \in StationOutcomes : ValidateAnswer(f, o)

SpecWizard == InitWizard /\ [][NextWizard]_vars

(***************************************************************************)
(* Tides: polls, the clock, and the host reading the sensor                *)
(***************************************************************************)
InitTides == TidesIdle /\ BuoyIdle /\ StationsIdle /\ WizardIdle /\ RestIdle

\* a successful poll replaces coordinator.data
TidesPoll ==
    /\ \E w \in Windows, c \in WaterLevels :
          tidesData' = [predictions |-> w, current_water_level |-> c]
    /\ tidesEval' = [op |-> "none", exc |-> "none"]
    /\ UNCHANGED <<now, attr, buoyVars, stationVars, wizardVars, restVars>>

\* time passes
Tick ==
    /\ now + GridStep \in Times
    /\ now' = now + GridStep
    /\ tidesEval' = [op |-> "none", exc |-> "none"]
    /\ UNCHANGED <<tidesData, attr, buoyVars, stationVars, wizardVars, restVars>>

\* the host writes the entity's state: it reads native_value and
\* extra_state_attributes
TidesWriteState ==
    /\ LET r == TidesExtraStateAttributes(attr, tidesData, now)
       IN  /\ attr' = r.attr
           /\ tidesEval' = [op |-> "written", exc |-> r.exc,
                            value |-> TidesNativeValue(tidesData, now)]
    /\ UNCHANGED <<tidesData, now, buoyVars, stationVars, wizardVars, restVars>>

NextTides == TidesPoll \/ Tick \/ TidesWriteState

SpecTides == InitTides /\ [][NextTides]_vars

(***************************************************************************)
(* Buoy: one poll of the coordinator, then the sensor's attributes         *)
(***************************************************************************)
InitBuoy ==
    /\ buoyResp \in BuoyResponses
    /\ buoyUnits \in {"english", "metric"}
    /\ buoyRet = NotRun
    /\ buoyData = None
    /\ buoyAttrs = NotRun
    /\ TidesIdle
    /\ StationsIdle
    /\ WizardIdle
    /\ RestIdle

\* the host runs _async_update_data and keeps the data of a successful poll
BuoyPoll ==
    /\ buoyRet = NotRun
    /\ buoyRet' = BuoyUpdateData(buoyResp)
    /\ buoyData' = IF buoyRet'.exc = "none" THEN buoyRet'.data ELSE buoyData
    /\ buoyAttrs' = NotRun
    /\ UNCHANGED <<buoyResp, buoyUnits, tidesVars, stationVars, wizardVars, restVars>>

\* the host reads extra_state_attributes
BuoyAttributes ==
    /\ buoyAttrs = NotRun
    /\ buoyAttrs' = BuoyExtraStateAttributes(buoyData, buoyUnits)
    /\ UNCHANGED <<buoyResp, buoyRet, buoyData, buoyUnits, tidesVars, stationVars, wizardVars, restVars>>

NextBuoy == BuoyPoll \/ BuoyAttributes

SpecBuoy == InitBuoy /\ [][NextBuoy]_vars

(***************************************************************************)
(* Claims about the buoy decoder and the buoy sensor (SpecBuoy)            *)
(***************************************************************************)
Polled == buoyRet # NotRun
Decoded == Polled /\ buoyRet.exc = "none"
AttrsRead == buoyAttrs # NotRun /\ buoyAttrs.exc = "none" /\ buoyData # None
FeedFields == StripHashSplit(buoyResp.lines[1])
FeedUnits == StripHashSplit(buoyResp.lines[2])
FeedValues == buoyResp.lines[3]

\* C1: a feed text of fewer than 3 lines makes the decoder raise
\* UpdateFailed; the poll returns no data mapping and stores none.
C1_ShortFeedFails ==
    (Polled /\ buoyResp.status = "ok" /\ Len(buoyResp.lines) < 3)
        => /\ buoyRet.fetch_exc = "UpdateFailed"
           /\ buoyRet.exc = "UpdateFailed"
           /\ buoyRet.data = None
           /\ buoyData = None

C1_Witness ==
    /\ Polled /\ buoyResp.status = "ok" /\ Len(buoyResp.lines) = 2
    /\ buoyRet.fetch_exc = "UpdateFailed"

C3_FloatOrInt ==
    Decoded =>
        \A i \in 1..Len(FeedFields) :
            FeedValues[i] # SENTINEL =>
                buoyRet.data[FeedFields[i]][2].kind =
                    (IF Contains(FeedValues[i], ".") THEN "float" ELSE "int")

C3_Witness ==
    /\ Decoded
    /\ \E i, j \in 1..Len(FeedFields) :
          /\ FeedValues[i] = t21p4 /\ buoyRet.data[FeedFields[i]][2] = PyFloat(214, 1)
          /\ FeedValues[j] = t100 /\ buoyRet.data[FeedFields[j]][2] = PyInt(100)

\* C4: with the english unit preference a field whose source unit is degC is
\* reported in degF as c * 9 / 5 + 32 rounded to one decimal place (0 gives
\* 32.0, 100 gives 212.0); every other reported field keeps its value and
\* its unit.
C4_FahrenheitOrUnchanged ==
    AttrsRead =>
        \A k \in Reported(buoyData) :
            LET c == buoyData[k][2]
                f == buoyAttrs.attr[k]
                u == buoyAttrs.attr[k \o SufUnit]
            IN  IF buoyUnits # "metric" /\ buoyData[k][1] = degC
                THEN /\ u = PyStr(degF)
                     /\ f.kind = "float" /\ f.scale = 1
                     /\ 2 * Abs(f.mant * Pow10(c.scale)
                                  - (c.mant * 18 + 320 * Pow10(c.scale)))
                            <= Pow10(c.scale)
                     /\ c = PyInt(0) => f = PyFloat(320, 1)
                     /\ c = PyInt(100) => f = PyFloat(2120, 1)
                ELSE u = PyStr(buoyData[k][1]) /\ f = c

C4_Witness ==
    /\ AttrsRead /\ buoyUnits = "english"
    /\ \E k \in Reported(buoyData) :
          /\ buoyData[k] = <<degC, PyInt(0)>>
          /\ buoyAttrs.attr[k] = PyFloat(320, 1)
          /\ buoyAttrs.attr[k \o SufUnit] = PyStr(degF)
    /\ \E k \in Reported(buoyData) :
          /\ buoyData[k] = <<hPa, PyFloat(214, 1)>>
          /\ buoyAttrs.attr[k] = PyFloat(214, 1)

(***************************************************************************)
(* Claims about the Tides sensor (SpecTides)                               *)
(***************************************************************************)
Written == tidesEval.op = "written" /\ tidesData # None
Preds == tidesData.predictions
PastRows == {i \in 1..Len(Preds) : Preds[i].t <= now}
FutureRows == {i \in 1..Len(Preds) : Preds[i].t > now}
NextTideKeys ==
    {"next_tide_time", "next_tide_type", "last_tide_time", "last_tide_type", "tide_factor"}

\* C5: with the last tide a Low at T0, the next tide a High at T1 and now
\* exactly halfway between them, the tide factor is 50 (kept in thousandths).
C5_HalfwayIsFifty ==
    Written =>
        \A i \in 1..(Len(Preds) - 1) :
            ( /\ Preds[i].hi_lo = "L" /\ Preds[i + 1].hi_lo = "H"
              /\ Preds[i].t <= now /\ now < Preds[i + 1].t
              /\ 2 * (now - Preds[i].t) = Preds[i + 1].t - Preds[i].t )
                => /\ tidesEval.exc = "none"
                   /\ "tide_factor" \in DOMAIN attr
                   /\ attr["tide_factor"] = 50000

C5_Witness ==
    /\ Written
    /\ \E i \in 1..(Len(Preds) - 1) :
          /\ Preds[i].hi_lo = "L" /\ Preds[i + 1].hi_lo = "H"
          /\ Preds[i].t < now /\ now < Preds[i + 1].t
          /\ 2 * (now - Preds[i].t) = Preds[i + 1].t - Preds[i].t
          /\ Preds[i].t \div MinutesPerDay # Preds[i + 1].t \div MinutesPerDay
    /\ attr["tide_factor"] = 50000
    /\ attr["next_tide_type"] = "High"

\* C6: when the prediction window is empty or holds only rows at or before
\* now, reading the attributes and the state raises nothing, the state is
\* None and none of the next-tide attributes is reported.
C6_NoNextTideWhenAllPast ==
    (Written /\ FutureRows = {})
        => /\ tidesEval.exc = "none"
           /\ tidesEval.value = None
           /\ DOMAIN attr \cap NextTideKeys = {}

\* C8: the sensor reports as last tide the latest row at or before now and
\* as next tide the earliest row after now, also when the first row of the
\* window is already after now.
C8_LastAndNext ==
    (Written /\ FutureRows # {})
        => LET n == CHOOSE i \in FutureRows : \A j \in FutureRows : i <= j
           IN  /\ "next_tide_time" \in DOMAIN attr
               /\ attr["next_tide_time"] = FormatClock(Preds[n].t)
               /\ attr["next_tide_type"] = (IF Preds[n].hi_lo = "H" THEN "High" ELSE "Low")
               /\ PastRows # {}
                    => LET l == CHOOSE i \in PastRows : \A j \in PastRows : j <= i
                       IN  attr["last_tide_time"] = FormatClock(Preds[l].t)

\* what the data D alone yields when the attributes are read at the time t
Yielded(D, t) == TidesExtraStateAttributes(None, D, t).attr

\* C10: every attribute the sensor reports is one the data of the latest
\* successful poll yields (at some time of reading it); nothing produced
\* from an earlier poll's data is still reported.
C10_OnlyLatestPoll ==
    Written =>
        \A k \in DOMAIN attr :
            \E t \in Times :
                k \in DOMAIN Yielded(tidesData, t) /\ Yielded(tidesData, t)[k] = attr[k]

(***************************************************************************)
(* Claims about the station directory (SpecStations)                       *)
(***************************************************************************)
\* the records verify_station_id was handed by fetch_noaa_stations that
\* carry exactly the id it was asked about
SeenWithId ==
    {i \in 1..Len(lastVerify.seen) :
        /\ "id" \in DOMAIN lastVerify.seen[i]
        /\ lastVerify.seen[i]["id"] = lastVerify.station_id}

\* C7: for the types tides and temp, verify_station_id returns (valid, the
\* name of a record with exactly that id) when the station lists hold such
\* a record and (invalid, not-found message) when they hold none; it never
\* raises, a failed directory fetch counting as an empty list.
C7_VerifyByExactId ==
    (lastVerify.op = "verify" /\ lastVerify.station_type \in {"tides", "temp"})
        => /\ lastVerify.exc = "none"
           /\ IF SeenWithId # {}
              THEN /\ lastVerify.valid
                   /\ \E i \in SeenWithId :
                         lastVerify.text =
                             (IF "name" \in DOMAIN lastVerify.seen[i]
                              THEN lastVerify.seen[i]["name"] ELSE <<"Unknown Station">>)
              ELSE /\ ~lastVerify.valid
                   /\ lastVerify.text =
                         <<"Station ID ">> \o lastVerify.station_id \o <<" not found">>

C7_Witness ==
    /\ lastVerify.op = "verify" /\ lastVerify.station_type = "temp"
    /\ lastVerify.station_id = Id9414
    /\ lastVerify.valid /\ lastVerify.text = <<"San Francisco">>
    /\ Len(fetchLog) = 1 /\ fetchLog[1].station_type = "waterlevels"
    /\ successes["tidepredictions"] = 0

\* C9 as claimed: at most one successful directory request per query type.
C9_OneRequestPerType == \A t \in QueryTypes : successes[t] <= 1

\* C9 as amended: a fetch_noaa_stations call that starts after a request of
\* its query type has succeeded returns the cached list and issues no
\* request.
C9_CachedAfterSuccess ==
    \A i \in 1..Len(fetchLog) :
        fetchLog[i].after_success
            => ~fetchLog[i].requested /\ fetchLog[i].stations = fetchLog[i].expected

C9_Witness ==
    \E i \in 1..Len(fetchLog) :
        /\ fetchLog[i].after_success /\ ~fetchLog[i].requested
        /\ fetchLog[i].stations = lastGood[fetchLog[i].station_type]
        /\ fetchLog[i].stations # <<>>
        /\ successes[fetchLog[i].station_type] = 1

\* C11: every failed poll of the buoy coordinator reaches the host as
\* UpdateFailed, whatever made it fail: no other exception type escapes
\* _async_update_data.
C11_FailedPollIsUpdateFailed ==
    Polled => buoyRet.exc \in {"none", "UpdateFailed"}

\* the rows i, i + 1 of the window with row i at or before now and row i + 1
\* after it: the last and the next extremum
Bracket == {i \in 1..(Len(Preds) - 1) : Preds[i].t <= now /\ now < Preds[i + 1].t}

\* the moments of [from, until), half an hour apart
HalfHours(from, until) == {from + 30 * k : k \in 0..((until - 1 - from) \div 30)}

\* the factor update_tide_factor_from_attr stores at the time t for the
\* clock strings the attributes hold
FactorAt(t) == UpdateTideFactor(attr, t).attr["tide_factor"]

\* C12: with last <= now < next the tide factor lies in 0..100 (kept in
\* thousandths); bound for a High it is 0 at the last extremum and never
\* decreases as now advances to the next one, bound for a Low it is 100 at
\* the last extremum and never increases.
C12_FactorRangeAndMonotone ==
    Written =>
        \A i \in Bracket :
            LET last == Preds[i].t
                next == Preds[i + 1].t
                high == Preds[i + 1].hi_lo = "H"
            IN  /\ tidesEval.exc = "none"
                /\ "tide_factor" \in DOMAIN attr
                /\ attr["tide_factor"] = FactorAt(now)
                /\ 0 <= attr["tide_factor"] /\ attr["tide_factor"] <= 100000
                /\ FactorAt(last) = (IF high THEN 0 ELSE 100000)
                /\ \A t \in HalfHours(last, next) :
                      /\ 0 <= FactorAt(t) /\ FactorAt(t) <= 100000
                      /\ t + 30 < next =>
                            IF high THEN FactorAt(t) <= FactorAt(t + 30)
                                    ELSE FactorAt(t) >= FactorAt(t + 30)

C12_Witness ==
    /\ Written
    /\ \E i \in Bracket :
          /\ Preds[i + 1].hi_lo = "H"
          /\ Preds[i + 1].t - Preds[i].t = 3 * GridStep
          /\ now = Preds[i].t + 2 * GridStep
    /\ attr["tide_factor"] = 75000
    /\ FactorAt(now - GridStep) = 25000

(***************************************************************************)
(* Claims about the setup wizard (SpecWizard)                              *)
(***************************************************************************)
EntriesOf(f) == {e \in entries : e.flow = f}
Ended == {"create_entry", "abort"}

\* C13: an entry exists only for a flow that came through the name step and
\* whose validate_input returned; after validate_input raised ValueError the
\* name form is shown with cannot_connect, after any other exception with
\* unknown, the flow has created no entry and its name form can be
\* submitted again.
C13_EntryOnlyAfterValidation ==
    /\ \A e \in entries :
          /\ flows[e.flow].form = "create_entry"
          /\ flows[e.flow].validated = "ok"
          /\ flows[e.flow].trail[Len(flows[e.flow].trail)] = "name"
    /\ \A f \in Procs :
          flows[f].validated \notin {"none", "ok"}
              => /\ flows[f].form = "name"
                 /\ flows[f].pc \in {"idle", "validating"}
                 /\ flows[f].errors =
                        (IF flows[f].validated = "ValueError" THEN "cannot_connect"
                         ELSE "unknown")
                 /\ EntriesOf(f) = {}

C13_Witness ==
    \E f \in Procs :
        /\ flows[f].failed
        /\ flows[f].form = "create_entry"
        /\ EntriesOf(f) # {}
        /\ \E g \in Procs : flows[g].validated = "HTTPError" /\ flows[g].errors = "unknown"

\* C14: in the manual step an id that failed verification leaves the manual
\* form shown with invalid_station_id and is not recorded in config_data;
\* the recorded id of a flow that went through the manual step is one that
\* passed verification, and passing leads on to the name step.
C14_OnlyVerifiedIdRecorded ==
    \A f \in Procs :
        LET fl == flows[f]
        IN  /\ (fl.verdict.op = "verify" /\ ~fl.verdict.valid)
                  => /\ fl.form = "manual"
                     /\ fl.errors = "invalid_station_id"
                     /\ "station_id" \notin DOMAIN fl.config_data
            /\ (fl.verdict.op = "verify" /\ fl.verdict.valid)
                  => /\ fl.config_data["station_id"] = fl.verdict.station_id
                     /\ fl.trail[Len(fl.trail)] = "name"
                     /\ fl.form \in {"name"} \cup Ended
            /\ (fl.trail # <<>> /\ "manual" \in {fl.trail[i] : i \in 1..Len(fl.trail)}
                  /\ "station_id" \in DOMAIN fl.config_data)
                  => fl.verdict.op = "verify" /\ fl.verdict.valid

C14_Witness ==
    \E f, g \in Procs :
        /\ flows[f].form = "manual" /\ flows[f].errors = "invalid_station_id"
        /\ flows[f].config_data["type"] = "tides"
        /\ flows[f].verdict.station_id = Id8518
        /\ flows[g].form = "name" /\ flows[g].verdict.op = "verify"
        /\ flows[g].config_data["type"] = "tides"
        /\ flows[g].config_data["station_id"] = Id9414

\* C15: no two entries carry the same (station id, station type); the
\* unique id of an entry is "<station_id>_<type>", and a flow aborts exactly
\* with already_configured, when another flow's entry carries its pair.
C15_NoSecondEntryForPair ==
    /\ \A e1, e2 \in entries :
          (e1.data["station_id"] = e2.data["station_id"]
              /\ e1.data["type"] = e2.data["type"]) => e1 = e2
    /\ \A e \in entries :
          e.unique_id = e.data["station_id"] \o <<"_", e.data["type"]>>
    /\ \A f \in Procs :
          flows[f].form = "abort"
              => /\ flows[f].reason = "already_configured"
                 /\ \E e \in entries :
                       /\ e.flow # f
                       /\ e.data["station_id"] = flows[f].config_data["station_id"]
                       /\ e.data["type"] = flows[f].config_data["type"]

C15_Witness ==
    \E e1, e2 \in entries :
        /\ e1.data["station_id"] = Id9414 /\ e2.data["station_id"] = Id9414
        /\ e1.data["type"] = "tides" /\ e2.data["type"] = "temp"

\* C16: after the first step the flow is in the manual step when the type
\* is buoy or the entry method is manual, and in the state step otherwise;
\* a flow whose type is buoy never enters the state or the station step.
C16_FirstStepRouting ==
    \A f \in Procs :
        LET fl == flows[f]
        IN  "type" \in DOMAIN fl.config_data
              => /\ Len(fl.trail) >= 2
                 /\ fl.trail[1] = "user"
                 /\ fl.trail[2] =
                       (IF fl.config_data["type"] = "buoy"
                           \/ fl.config_data["entry_method"] = "manual"
                        THEN "manual" ELSE "state")
                 /\ fl.config_data["type"] = "buoy"
                       => /\ \A i \in 1..Len(fl.trail) : fl.trail[i] \notin {"state", "station"}
                          /\ fl.form \notin {"state", "station"}

C16_Witness ==
    \E f, g \in Procs :
        /\ flows[f].trail = <<"user", "state", "station", "name">>
        /\ flows[f].config_data["type"] = "temp"
        /\ flows[g].trail = <<"user", "manual", "name">>
        /\ flows[g].config_data["type"] = "buoy"
        /\ flows[g].config_data["entry_method"] = "lookup"

\* C17: a flow whose state step got an empty station list, or a list in
\* which no record carries a state, goes on to the manual step: the state
\* form is not shown and the station step is not entered.
C17_StateStepFallsBack ==
    \A f \in Procs :
        LET fl == flows[f]
        IN  (Len(fl.trail) >= 2 /\ fl.trail[2] = "state" /\ fl.pc # "fetching"
               /\ GetStates(fl.stations_cache) = {})
              => /\ Len(fl.trail) >= 3
                 /\ fl.trail[3] = "manual"
                 /\ fl.form \in {"manual", "name"} \cup Ended

C17_Witness ==
    \E f, g \in Procs :
        /\ flows[f].trail = <<"user", "state", "manual">>
        /\ flows[f].stations_cache = <<>>
        /\ flows[f].form = "manual"
        /\ flows[g].trail = <<"user", "state", "manual">>
        /\ flows[g].stations_cache = <<[id |-> Id8518]>>
        /\ flows[g].form = "manual"

\* C18: the data of every entry has exactly the keys station_id, type and
\* name, with the values the flow collected; state and entry_method are
\* not in it, on the lookup path and on the manual path.
C18_EntryDataKeys ==
    \A e \in entries :
        /\ DOMAIN e.data = {"station_id", "type", "name"}
        /\ \A k \in DOMAIN e.data : e.data[k] = flows[e.flow].config_data[k]

C18_Witness ==
    \E e1, e2 \in entries :
        /\ flows[e1.flow].config_data["entry_method"] = "lookup"
        /\ "state" \in DOMAIN flows[e1.flow].config_data
        /\ flows[e2.flow].config_data["entry_method"] = "manual"
        /\ e1.data["name"] = DEFAULT_NAME /\ e2.data["name"] = "Pier"

(***************************************************************************)
(* Claims about failed and overlapping directory requests (SpecStations)   *)
(***************************************************************************)
\* the step ends the request of the awaiting caller p
Answered(p) == procs[p].pc = "awaiting" /\ procs'[p] # procs[p]
\* the step ends the request of p with a failure: no 200 answer is counted
Failed(p) == Answered(p) /\ successes' = successes

\* C19 as claimed: after a fetch has failed the cache holds no list for its
\* query type, so that the next call for the type issues a request.
C19_NextCallRequests ==
    [][\A p \in Procs :
          Failed(p) => ~CacheHit(stationCache', procs[p].station_type)]_vars

\* C19 as amended: a fetch that fails returns the empty list and leaves the
\* cache as it was; while no request of the query type has succeeded the
\* cache holds no list for it, so the next call issues a request.
C19_FailureNotCached ==
    [][\A p \in Procs :
          Failed(p)
              => /\ stationCache' = stationCache
                 /\ fetchLog' # <<>>
                 /\ fetchLog'[1].requested
                 /\ fetchLog'[1].station_type = procs[p].station_type
                 /\ fetchLog'[1].stations = <<>>
                 /\ successes[procs[p].station_type] = 0
                       => ~CacheHit(stationCache', procs[p].station_type)]_vars

C19_Witness ==
    /\ calls = 1
    /\ fetchLog # <<>>
    /\ fetchLog[1].requested
    /\ fetchLog[1].station_type = "waterlevels"
    /\ fetchLog[1].stations = <<>>
    /\ successes["waterlevels"] = 0
    /\ ~CacheHit(stationCache, "waterlevels")

\* C20 as claimed: once the cache holds a list for a query type, no step
\* removes the entry or replaces it with a different list.
C20_EntryNeverReplaced ==
    [][\A t \in QueryTypes :
          CacheHit(stationCache, t)
              => /\ CacheHit(stationCache', t)
                 /\ stationCache'[CacheKey(t)] = stationCache[CacheKey(t)]]_vars

\* C20 as amended: an entry of the cache is never removed, and it is
\* replaced only by a call that started before the first request of its
\* query type succeeded, with the list that call's own request returned.
C20_ReplacedOnlyByOverlappingCall ==
    [][\A t \in QueryTypes :
          CacheHit(stationCache, t)
              => /\ CacheHit(stationCache', t)
                 /\ stationCache'[CacheKey(t)] # stationCache[CacheKey(t)]
                       => \E p \in Procs :
                             /\ Answered(p)
                             /\ procs[p].station_type = t
                             /\ ~procs[p].after_success
                             /\ fetchLog'[1].requested
                             /\ stationCache'[CacheKey(t)] = fetchLog'[1].stations]_vars

C20_Witness ==
    \E t \in QueryTypes :
        /\ successes[t] = 2
        /\ fetchLog # <<>>
        /\ fetchLog[1].station_type = t /\ fetchLog[1].requested
        /\ ~fetchLog[1].after_success
        /\ fetchLog[1].stations # <<>>
        /\ stationCache[CacheKey(t)] = fetchLog[1].stations

(***************************************************************************)
(* Entry setup and unload (custom_components/noaa_tides/__init__.py)       *)
(***************************************************************************)
\* the coordinator async_setup_entry creates for the entry e
Coordinator(e, station_type) ==
    [class |-> IF station_type = "tides" THEN "NOAATidesDataUpdateCoordinator"
               ELSE IF station_type = "temp" THEN "NOAATemperatureDataUpdateCoordinator"
               ELSE "NOAABuoyDataUpdateCoordinator",
     entry_id |-> e]

\* hass.data.setdefault(DOMAIN, {})
SetDefault(data) ==
    IF DOMAIN_NAME \in DOMAIN data THEN data ELSE Put(data, DOMAIN_NAME, EmptyDict)

\* hass.data[DOMAIN][entry.entry_id] = coordinator
Store(data, e, coordinator) ==
    Put(data, DOMAIN_NAME, Put(data[DOMAIN_NAME], e, coordinator))

\* an unload that drops the coordinator whatever the platforms answered
AfterUnloadAlwaysPops(data, e, unload_ok) ==
    Put(data, DOMAIN_NAME,
        [k \in DOMAIN data[DOMAIN_NAME] \ {e} |-> data[DOMAIN_NAME][k]])

\* async_unload_entry after the await: hass.data[DOMAIN].pop(entry.entry_id)
\* if unload_ok
AfterUnload(data, e, unload_ok) ==
    IF unload_ok
    THEN Put(data, DOMAIN_NAME,
             [k \in DOMAIN data[DOMAIN_NAME] \ {e} |-> data[DOMAIN_NAME][k]])
    ELSE data

InitSetup ==
    /\ SetupIdle /\ PollIdle
    /\ BuoyIdle /\ TidesIdle /\ StationsIdle /\ WizardIdle

\* the host calls async_setup_entry for an entry that is not loaded (anew
\* after a failed first refresh): it runs up to the await of the first refresh
SetupStart(e) ==
    /\ setups[e].state \in {"not_loaded", "setup_retry"}
    /\ hassData' = SetDefault(hassData)
    /\ setups' = [setups EXCEPT ![e].state = "refreshing"]
    /\ UNCHANGED <<pollVars, buoyVars, tidesVars, stationVars, wizardVars>>

\* async_config_entry_first_refresh ends: it raises ConfigEntryNotReady when
\* the first poll failed, otherwise the coordinator is stored and the setup
\* runs up to the await of the platforms
FirstRefreshDone(e, refreshed) ==
    /\ setups[e].state = "refreshing"
    /\ IF refreshed
       THEN /\ hassData' = Store(hassData, e, Coordinator(e, setups[e].type))
            /\ setups' = [setups EXCEPT ![e].state = "forwarding"]
       ELSE /\ setups' = [setups EXCEPT ![e].state = "setup_retry",
                                        ![e].exc = "ConfigEntryNotReady"]
            /\ UNCHANGED hassData
    /\ UNCHANGED <<pollVars, buoyVars, tidesVars, stationVars, wizardVars>>

\* async_forward_entry_setups returns and async_setup_entry returns True
ForwardDone(e) ==
    /\ setups[e].state = "forwarding"
    /\ setups' = [setups EXCEPT ![e].state = "loaded", ![e].exc = "none"]
    /\ UNCHANGED <<hassData, pollVars, buoyVars, tidesVars, stationVars, wizardVars>>

\* the host calls async_unload_entry for a loaded entry: it runs up to the
\* await of async_unload_platforms
UnloadStart(e) ==
    /\ setups[e].state = "loaded"
    /\ setups' = [setups EXCEPT ![e].state = "unloading"]
    /\ UNCHANGED <<hassData, pollVars, buoyVars, tidesVars, stationVars, wizardVars>>

\* async_unload_platforms ends with unload_ok
UnloadDone(e, unload_ok) ==
    /\ setups[e].state = "unloading"
    /\ IF unload_ok /\ e \notin DOMAIN hassData[DOMAIN_NAME]
       THEN /\ setups' = [setups EXCEPT ![e].state = "failed_unload", ![e].exc = "KeyError"]
            /\ UNCHANGED hassData
       ELSE /\ hassData' = AfterUnload(hassData, e, unload_ok)
            /\ setups' = [setups EXCEPT ![e].state =
                             IF unload_ok THEN "not_loaded" ELSE "failed_unload"]
    /\ UNCHANGED <<pollVars, buoyVars, tidesVars, stationVars, wizardVars>>

NextSetup ==
    \/ \E e \in EntryIds : SetupStart(e)
    \/ \E e \in EntryIds, refreshed \in BOOLEAN : FirstRefreshDone(e, refreshed)
    \/ \E e \in EntryIds : ForwardDone(e)
    \/ \E e \in EntryIds : UnloadStart(e)
    \/ \E e \in EntryIds, unload_ok \in BOOLEAN : UnloadDone(e, unload_ok)

SpecSetup == InitSetup /\ [][NextSetup]_vars

(***************************************************************************)
(* Claims about entry setup and unload (SpecSetup)                         *)
(***************************************************************************)
Stored(e) == DOMAIN_NAME \in DOMAIN hassData /\ e \in DOMAIN hassData[DOMAIN_NAME]

\* C21: hass.data[noaa_tides] holds the coordinator of an entry exactly
\* while the entry is set up: not before its first refresh succeeded, not
\* after a setup that did not complete, not after the platforms were
\* unloaded, and still after an unload that failed.
C21_StoredWhileSetUp ==
    \A e \in EntryIds :
        /\ Stored(e) <=> setups[e].state \in {"forwarding", "loaded", "unloading", "failed_unload"}
        /\ setups[e].state \in {"not_loaded", "refreshing", "setup_retry"} => ~Stored(e)
        /\ Stored(e) => hassData[DOMAIN_NAME][e] = Coordinator(e, setups[e].type)
        /\ setups[e].exc \in {"none", "ConfigEntryNotReady"}

C21_Witness ==
    /\ setups["entry1"].state = "failed_unload" /\ Stored("entry1")
    /\ setups["entry2"].state = "setup_retry" /\ ~Stored("entry2")
    /\ DOMAIN_NAME \in DOMAIN hassData

(***************************************************************************)
(* The tides poll (NOAATidesDataUpdateCoordinator)                         *)
(***************************************************************************)
\* what a request to the NOAA API can end in: an answer, or one of the
\* exceptions noaa_coops and requests raise (ReadTimeout is a requests
\* exception that is not a ConnectionError)
RequestErrors == {"ValueError", "ConnectionError", "ReadTimeout"}
RequestOutcomes(values) ==
    {[exc |-> "none", value |-> v] : v \in values}
        \cup {[exc |-> e, value |-> None] : e \in RequestErrors}

StationObject == [station_id |-> Id9414]

\* the answers of one poll: to nc.Station, to the predictions request and to
\* the water-level request
PollAnswers ==
    [op : {"running"},
     station : RequestOutcomes({StationObject}),
     predictions : RequestOutcomes(Windows),
     water_level : RequestOutcomes(WaterLevels)]

\* a water-level request whose failure leaves the try block
WaterLevelTryRaises(answer) == answer

\* _fetch_data, the try block of the water-level request: ValueError and
\* ConnectionError are logged and leave current_water_level None
WaterLevelTry(answer) ==
    IF answer.exc \in {"ValueError", "ConnectionError"}
    THEN [exc |-> "none", value |-> None]
    ELSE answer

\* _fetch_data run with self.station = station against the answers resp
FetchData(station, resp) ==
    LET created == IF station = None THEN resp.station
                   ELSE [exc |-> "none", value |-> station]
        level   == WaterLevelTry(resp.water_level)
    IN  IF created.exc # "none"
        THEN [exc |-> created.exc, data |-> None, station |-> None]
        ELSE IF resp.predictions.exc # "none"
        THEN [exc |-> resp.predictions.exc, data |-> None, station |-> created.value]
        ELSE IF level.exc # "none"
        THEN [exc |-> level.exc, data |-> None, station |-> created.value]
        ELSE [exc |-> "none",
              data |-> [predictions |-> resp.predictions.value,
                        current_water_level |-> level.value],
              station |-> created.value]

\* _async_update_data: ValueError and ConnectionError become UpdateFailed
AsyncUpdateData(station, resp) ==
    LET r == FetchData(station, resp)
    IN  IF r.exc \in {"ValueError", "ConnectionError"}
        THEN [r EXCEPT !.exc = "UpdateFailed"]
        ELSE r

InitTidesPoll ==
    /\ PollIdle
    /\ hassData = EmptyDict
    /\ setups = [e \in EntryIds |-> [state |-> "not_loaded", type |-> "tides", exc |-> "none"]]
    /\ BuoyIdle /\ TidesIdle /\ StationsIdle /\ WizardIdle

\* the coordinator starts a poll: _fetch_data goes to the executor
PollStart ==
    /\ tidesResp.op # "running"
    /\ tidesResp' \in PollAnswers
    /\ UNCHANGED <<tidesRet, setupVars, buoyVars, tidesVars, stationVars, wizardVars>>

\* the executor job ends; a poll that succeeded replaces coordinator.data
PollDone ==
    /\ tidesResp.op = "running"
    /\ tidesRet' = AsyncUpdateData(tidesRet.station, tidesResp)
    /\ tidesResp' = [tidesResp EXCEPT !.op = "done"]
    /\ tidesData' = IF tidesRet'.exc = "none" THEN tidesRet'.data ELSE tidesData
    /\ UNCHANGED <<now, attr, tidesEval, setupVars, buoyVars, stationVars, wizardVars>>

NextTidesPoll == PollStart \/ PollDone

SpecTidesPoll == InitTidesPoll /\ [][NextTidesPoll]_vars

(***************************************************************************)
(* Claims about the tides poll (SpecTidesPoll)                             *)
(***************************************************************************)
\* the last poll ended and its requests were sent through a station object
Polled22 == tidesResp.op = "done" /\ tidesRet.station # None

\* C22: a ValueError or a connection error of the current-water-level
\* request never fails the poll, which returns the predictions with the
\* current water level absent; a ValueError or a connection error of the
\* predictions request fails the poll as UpdateFailed.
C22_WaterLevelFailureTolerated ==
    Polled22 =>
        /\ (/\ tidesResp.predictions.exc = "none"
            /\ tidesResp.water_level.exc \in {"ValueError", "ConnectionError"})
             => /\ tidesRet.exc = "none"
                /\ tidesRet.data = [predictions |-> tidesResp.predictions.value,
                                    current_water_level |-> None]
                /\ tidesData = tidesRet.data
        /\ tidesResp.predictions.exc \in {"ValueError", "ConnectionError"}
             => tidesRet.exc = "UpdateFailed" /\ tidesRet.data = None

\* a poll whose water-level request failed returned a table of two rows
C22_Witness ==
    /\ Polled22
    /\ tidesResp.predictions.exc = "none"
    /\ Len(tidesResp.predictions.value) = 2
    /\ tidesResp.water_level.exc = "ConnectionError"
    /\ tidesRet.exc = "none"
    /\ tidesRet.data.current_water_level = None

(***************************************************************************)
(* The single-step config flow (src/noaa_tides/config_flow.py)             *)
(***************************************************************************)
Id41A46 == <<"4", "1", "A", "4", "6">>
\* what the user can type into the station_id field
TypedIds == StationIds \cup {Id41A46}
UNIT_SYSTEMS == {"english", "metric"}
DEFAULT_TIMEZONE == "lst_ldt"

\* str.isdigit
IsDigit(s) == Len(s) > 0 /\ \A i \in 1..Len(s) : s[i] \in Digits

\* the flow before its first step; the record keeps the form shown, the
\* await the flow is suspended at, the last submission and what its
\* validate_input raised
NewUserFlow ==
    [form |-> "none", errors |-> "none", reason |-> "none", pc |-> "idle",
     user_input |-> None, raised |-> [exc |-> "none", arg |-> "none"]]

\* the submissions the schema of the user form lets through
UserInputs ==
    {[station_id |-> i, type |-> t, name |-> n, time_zone |-> DEFAULT_TIMEZONE,
      unit_system |-> u] :
        i \in TypedIds, t \in StationTypes,
        n \in {DEFAULT_NAME, "Pier"}, u \in UNIT_SYSTEMS}

\* validate_input for the data and, for tides and temp, the end of the
\* executor job nc.Station
ValidateInputUser(data, outcome) ==
    IF data.type \in {"tides", "temp"}
    THEN IF outcome \in {"ValueError", "ConnectionError"}
         THEN [exc |-> "ValueError", arg |-> "cannot_connect"]
         ELSE IF outcome # "ok" THEN [exc |-> outcome, arg |-> "none"]
         ELSE [exc |-> "none", arg |-> "none"]
    ELSE IF data.type = "buoy" /\ ~IsDigit(data.station_id)
         THEN [exc |-> "ValueError", arg |-> "invalid_station_id"]
         ELSE [exc |-> "none", arg |-> "none"]

\* errors["base"] of async_step_user for what validate_input raised
UserError(raised) ==
    IF raised.exc = "ValueError" THEN "cannot_connect" ELSE "unknown"

\* async_step_user after validate_input ended
UserStepRest(f, fl, raised) ==
    LET uid == UniqueId(fl.user_input.station_id, fl.user_input.type)
        c == [fl EXCEPT !.raised = raised, !.pc = "idle"]
    IN  IF raised.exc # "none"
        THEN /\ flows' = [flows EXCEPT ![f] =
                            [c EXCEPT !.form = "user", !.errors = UserError(raised)]]
             /\ UNCHANGED entries
        ELSE IF \E e \in entries : e.unique_id = uid
        THEN /\ flows' = [flows EXCEPT ![f] =
                            [c EXCEPT !.form = "abort", !.errors = "none",
                                      !.reason = "already_configured"]]
             /\ UNCHANGED entries
        ELSE /\ flows' = [flows EXCEPT ![f] =
                            [c EXCEPT !.form = "create_entry", !.errors = "none"]]
             /\ entries' = entries \cup
                               {[unique_id |-> uid, title |-> fl.user_input.name,
                                 data |-> fl.user_input, flow |-> f]}

InitUserFlow ==
    /\ flows = [f \in Procs |-> NewUserFlow]
    /\ entries = {}
    /\ RestIdle
    /\ BuoyIdle /\ TidesIdle /\ StationsIdle

\* async_step_user(None): the empty form
UserFlowInit(f) ==
    /\ flows[f].form = "none"
    /\ flows' = [flows EXCEPT ![f].form = "user"]
    /\ UNCHANGED <<entries, buoyVars, tidesVars, stationVars, restVars>>

\* async_step_user(user_input): up to the await of nc.Station for tides and
\* temp, to its end for buoy
SubmitUserInput(f, input) ==
    /\ flows[f].form = "user" /\ flows[f].pc = "idle"
    /\ LET c == [flows[f] EXCEPT !.user_input = input]
       IN  IF input.type \in {"tides", "temp"}
           THEN /\ flows' = [flows EXCEPT ![f] = [c EXCEPT !.pc = "validating"]]
                /\ UNCHANGED entries
           ELSE UserStepRest(f, c, ValidateInputUser(input, "ok"))
    /\ UNCHANGED <<buoyVars, tidesVars, stationVars, restVars>>

\* the executor job nc.Station ends and async_step_user runs to its end
UserValidateAnswer(f, outcome) ==
    /\ flows[f].pc = "validating"
    /\ UserStepRest(f, flows[f], ValidateInputUser(flows[f].user_input, outcome))
    /\ UNCHANGED <<buoyVars, tidesVars, stationVars, restVars>>

NextUserFlow ==
    \/ \E f \in Procs : UserFlowInit(f)
    \/ \E f \in Procs, input \in UserInputs : SubmitUserInput(f, input)
    \/ \E f \in Procs, outcome \in StationOutcomes : UserValidateAnswer(f, outcome)

SpecUserFlow == InitUserFlow /\ [][NextUserFlow]_vars

(***************************************************************************)
(* Claims about the single-step config flow (SpecUserFlow)                 *)
(***************************************************************************)
\* the flow f has handled a buoy submission whose station id is not all digits
BadBuoyHandled(f) ==
    /\ flows[f].user_input # None
    /\ flows[f].pc = "idle"
    /\ flows[f].user_input.type = "buoy"
    /\ ~IsDigit(flows[f].user_input.station_id)

\* C23: a buoy station id that is not all digits is rejected with the form
\* error invalid_station_id and no config entry is created.
C23_BadBuoyIdIsInvalidStationId ==
    \A f \in Procs :
        BadBuoyHandled(f) =>
            /\ flows[f].form = "user"
            /\ flows[f].errors = "invalid_station_id"
            /\ ~\E e \in entries : e.data.type = "buoy" /\ ~IsDigit(e.data.station_id)

(***************************************************************************)
(* The Tides sensor at minute resolution: two predictions and a clock      *)
(***************************************************************************)
\* the most steps of the minute grid
MaxFine == 22
\* times 97 minutes apart from 11:07 AM of the first day into the second
FineStep == 60 + 37
FineOrigin == 11 * 60 + 7
FineTimes == {FineOrigin + k * FineStep : k \in 0..MaxFine}

\* hi/lo prediction tables of two rows in time order, a high and a low
FineWindows ==
    UNION {{<<TideRow(a, x), TideRow(b, IF x = "H" THEN "L" ELSE "H")>> :
               b \in {c \in FineTimes : c > a}, x \in {"H", "L"}} : a \in FineTimes}

\* the sensor is created, the coordinator holds the data of a poll and the
\* clock shows some minute
InitClock ==
    /\ \E w \in FineWindows :
          tidesData = [predictions |-> w, current_water_level |-> None]
    /\ now \in FineTimes
    /\ attr = None
    /\ tidesEval = [op |-> "none", exc |-> "none"]
    /\ BuoyIdle /\ StationsIdle /\ WizardIdle /\ RestIdle

NextClock == TidesWriteState

SpecClock == InitClock /\ [][NextClock]_vars

(***************************************************************************)
(* Claims about the clock strings of the Tides sensor (SpecClock)          *)
(***************************************************************************)
\* the factor for the timestamps themselves, in thousandths
FactorOfTimestamps(last, next, t, high) ==
    IF high THEN 50000 - 50 * CosPi((t - last) * 60, (next - last) * 60)
    ELSE 50000 + 50 * CosPi((t - last) * 60, (next - last) * 60)

\* C24: the tide factor computed from the date-less clock strings of
\* last_tide_time and next_tide_time equals the factor computed from the
\* timestamps themselves, for every last <= now < next with next less than
\* 24 hours after last, also across midnight.
C24_ClockStringsKeepFactor ==
    Written =>
        \A i \in Bracket :
            Preds[i + 1].t - Preds[i].t < MinutesPerDay
                => /\ tidesEval.exc = "none"
                   /\ "tide_factor" \in DOMAIN attr
                   /\ attr["tide_factor"] =
                          FactorOfTimestamps(Preds[i].t, Preds[i + 1].t, now,
                                             Preds[i + 1].hi_lo = "H")

\* written 97 minutes after midnight between a tide of the evening before
\* and one of the morning, both off the full hour
C24_Witness ==
    /\ Written
    /\ \E i \in Bracket :
          /\ Preds[i].t < MinutesPerDay /\ Preds[i].t >= 18 * 60
          /\ Preds[i + 1].t > MinutesPerDay
          /\ Preds[i + 1].t - Preds[i].t < MinutesPerDay
          /\ now > MinutesPerDay + FineStep
          /\ Preds[i].t % 60 # 0 /\ Preds[i + 1].t % 60 # 0
    /\ "tide_factor" \in DOMAIN attr
    /\ attr["tide_factor"] \notin {0, 50000, 100000}

====
